---- MODULE Spec2Model ----
(***************************************************************************)
(* A model of src/server.py: the elicitation gateway                       *)
(* elicit_with_validation, the date rule validate_date and the booking     *)
(* workflow book_table.                                                    *)
(*                                                                         *)
(* Strings are sequences of chunks.  A chunk is either one character of    *)
(* data ("2", "-", "a") or one literal fragment of an f-string of the      *)
(* source ("Invalid date '"); concatenation is \o.  Data strings (dates,   *)
(* the text of a party size) are made of one-character chunks only, so     *)
(* the parsers below read them character by character.                     *)
(***************************************************************************)
EXTENDS Integers, Sequences, FiniteSets, TLC

\* ------------------------------------------------------------------ bounds

\* Elicitations one invocation may issue inside its two reprompt loops.
MaxReprompts == 2
\* Midnights the server's clock may pass while the model runs.
MaxTicks == 1

\* The invocations of book_table: each owns its locals.
Invs == {1, 2}

\* ----------------------------------------------------------------- strings

Digits == {"0", "1", "2", "3", "4", "5", "6", "7", "8", "9"}

DigitVal(c) ==
    CASE c = "0" -> 0 [] c = "1" -> 1 [] c = "2" -> 2 [] c = "3" -> 3
      [] c = "4" -> 4 [] c = "5" -> 5 [] c = "6" -> 6 [] c = "7" -> 7
      [] c = "8" -> 8 [] c = "9" -> 9

DigitChar(d) ==
    CASE d = 0 -> "0" [] d = 1 -> "1" [] d = 2 -> "2" [] d = 3 -> "3"
      [] d = 4 -> "4" [] d = 5 -> "5" [] d = 6 -> "6" [] d = 7 -> "7"
      [] d = 8 -> "8" [] d = 9 -> "9"

\* The character of s at position i; "" past either end.
At(s, i) == IF i \in 1..Len(s) THEN s[i] ELSE ""

IsDigitAt(s, i) == At(s, i) \in Digits

RECURSIVE NatToStr(_)
NatToStr(n) ==
    IF n < 10 THEN <<DigitChar(n)>>
    ELSE NatToStr(n \div 10) \o <<DigitChar(n % 10)>>

\* str(n) / f"{n}" of an int.
IntToStr(n) == IF n < 0 THEN <<"-">> \o NatToStr(-n) ELSE NatToStr(n)

RECURSIVE DigitsToNat(_)
DigitsToNat(s) ==
    IF s = <<>> THEN 0
    ELSE 10 * DigitsToNat(SubSeq(s, 1, Len(s) - 1)) + DigitVal(s[Len(s)])

AllDigits(s) == s # <<>> /\ \A k \in 1..Len(s) : s[k] \in Digits

\* needle occurs in hay as a contiguous run of chunks.
Contains(hay, needle) ==
    \E k \in 0..(Len(hay) - Len(needle)) :
        SubSeq(hay, k + 1, k + Len(needle)) = needle

\* --------------------------------------------------------------- calendar

IsLeap(y) == (y % 4 = 0 /\ y % 100 # 0) \/ y % 400 = 0

DaysInMonth(y, m) ==
    IF m = 2 THEN (IF IsLeap(y) THEN 29 ELSE 28)
    ELSE IF m \in {4, 6, 9, 11} THEN 30 ELSE 31

\* a >= b on dates <<year, month, day>>.
DateGE(a, b) ==
    \/ a[1] > b[1]
    \/ a[1] = b[1] /\ a[2] > b[2]
    \/ a[1] = b[1] /\ a[2] = b[2] /\ a[3] >= b[3]

NextDay(d) ==
    IF d[3] < DaysInMonth(d[1], d[2]) THEN <<d[1], d[2], d[3] + 1>>
    ELSE IF d[2] < 12 THEN <<d[1], d[2] + 1, 1>>
    ELSE <<d[1] + 1, 1, 1>>

RECURSIVE DaysAfter(_, _)
DaysAfter(d, n) == IF n = 0 THEN d ELSE DaysAfter(NextDay(d), n - 1)

\* The server's date when the model starts, and the last one it reaches.
Today0 == <<2025, 2, 28>>
LastDay == DaysAfter(Today0, MaxTicks)

\* ------------------------------------------------- datetime.strptime

ParseFail == [ok |-> FALSE, ymd |-> <<0, 0, 0>>]

\* %m is the regex 1[0-2]|0[1-9]|[1-9]: the alternatives that match at p, in
\* the regex's order, each as <<month, position after it>>.
MonthAlts(s, p) ==
    (IF At(s, p) = "1" /\ At(s, p + 1) \in {"0", "1", "2"}
        THEN << <<10 + DigitVal(At(s, p + 1)), p + 2>> >> ELSE <<>>)
    \o (IF At(s, p) = "0" /\ At(s, p + 1) \in (Digits \ {"0"})
        THEN << <<DigitVal(At(s, p + 1)), p + 2>> >> ELSE <<>>)
    \o (IF At(s, p) \in (Digits \ {"0"})
        THEN << <<DigitVal(At(s, p)), p + 1>> >> ELSE <<>>)

\* %d is the regex 3[0-1]|[1-2]\d|0[1-9]|[1-9]| [1-9].
DayAlts(s, q) ==
    (IF At(s, q) = "3" /\ At(s, q + 1) \in {"0", "1"}
        THEN << <<30 + DigitVal(At(s, q + 1)), q + 2>> >> ELSE <<>>)
    \o (IF At(s, q) \in {"1", "2"} /\ IsDigitAt(s, q + 1)
        THEN << <<10 * DigitVal(At(s, q)) + DigitVal(At(s, q + 1)), q + 2>> >>
        ELSE <<>>)
    \o (IF At(s, q) = "0" /\ At(s, q + 1) \in (Digits \ {"0"})
        THEN << <<DigitVal(At(s, q + 1)), q + 2>> >> ELSE <<>>)
    \o (IF At(s, q) \in (Digits \ {"0"})
        THEN << <<DigitVal(At(s, q)), q + 1>> >> ELSE <<>>)
    \o (IF At(s, q) = " " /\ At(s, q + 1) \in (Digits \ {"0"})
        THEN << <<DigitVal(At(s, q + 1)), q + 2>> >> ELSE <<>>)

\* What follows month alternative m = <<month, position after it>>: the "-"
\* and the day alternatives, or nothing.
DayAfter(s, m) == IF At(s, m[2]) = "-" THEN DayAlts(s, m[2] + 1) ELSE <<>>

\* The date of a match: dy = <<day, position after it>>.  Data left over, or
\* a date that is not of the calendar, is the ValueError.
Dated(s, year, mo, dy) ==
    IF dy[2] # Len(s) + 1 THEN ParseFail
    ELSE IF year < 1 \/ dy[1] > DaysInMonth(year, mo) THEN ParseFail
    ELSE [ok |-> TRUE, ymd |-> <<year, mo, dy[1]>>]

\* datetime.strptime(s, "%Y-%m-%d").date(): the format's regex
\* (\d\d\d\d)-(%m)-(%d) matched at the start of s with backtracking over the
\* month alternatives, no data left over, and a date of the calendar.
\* ok = FALSE stands for the ValueError.
strptime(s) ==
    IF ~(\A k \in 1..4 : IsDigitAt(s, k)) \/ At(s, 5) # "-" THEN ParseFail
    ELSE
      LET ms   == MonthAlts(s, 6)
          good == {k \in 1..Len(ms) : DayAfter(s, ms[k]) # <<>>}
          \* the match takes the first month alternative that lets the rest
          \* match, and after it the first day alternative
          matches == {Dated(s, DigitsToNat(SubSeq(s, 1, 4)), ms[k][1],
                            Head(DayAfter(s, ms[k]))) :
                         k \in {x \in good : \A y \in good : x <= y}}
      IN  IF good = {} THEN ParseFail ELSE CHOOSE r \in matches : TRUE

\* ------------------------------------------------------------ Python values

\* A value a payload field or a local can hold: t is its Python type, s its
\* text when a str, n its number when an int or a bool.  "absent" stands for
\* an attribute or key the payload does not have.
NoneV    == [t |-> "None",   s |-> <<>>, n |-> 0]
Absent   == [t |-> "absent", s |-> <<>>, n |-> 0]
StrV(x)  == [t |-> "str",    s |-> x,    n |-> 0]
IntV(k)  == [t |-> "int",    s |-> <<>>, n |-> k]
BoolV(b) == [t |-> "bool",   s |-> <<>>, n |-> IF b THEN 1 ELSE 0]

\* str(v)
PyStr(v) ==
    CASE v.t = "str"  -> v.s
      [] v.t = "int"  -> IntToStr(v.n)
      [] v.t = "bool" -> IF v.n = 1 THEN <<"True">> ELSE <<"False">>
      [] OTHER        -> <<"None">>

\* bool(v): the truth value an if statement reads.
Truthy(v) ==
    CASE v.t = "str" -> v.s # <<>>
      [] v.t \in {"int", "bool"} -> v.n # 0
      [] OTHER -> FALSE

\* An exception in flight: its class and str(e).
Exc(type, msg) == [type |-> type, msg |-> msg]
NoExc == Exc("", <<>>)

\* The classes the two except clauses of the source name first.
DisconnectTypes == {"ClosedResourceError", "ConnectionError"}

\* int(v): [ok, n, exc].  A str is an optional sign and decimal digits
\* (the data strings of the model hold no blanks and no underscores).
PyInt(v) ==
    LET body == IF At(v.s, 1) \in {"+", "-"} THEN Tail(v.s) ELSE v.s
        bad  == Exc("ValueError",
                    <<"invalid literal for int() with base 10: '">> \o v.s \o <<"'">>)
    IN  CASE v.t \in {"int", "bool"} -> [ok |-> TRUE, n |-> v.n, exc |-> NoExc]
          [] v.t = "str" ->
               IF AllDigits(body)
               THEN [ok |-> TRUE,
                     n |-> IF At(v.s, 1) = "-" THEN -DigitsToNat(body)
                           ELSE DigitsToNat(body),
                     exc |-> NoExc]
               ELSE [ok |-> FALSE, n |-> 0, exc |-> bad]
          [] OTHER -> [ok |-> FALSE, n |-> 0,
                       exc |-> Exc("TypeError", <<"int() argument must be a string, a bytes-like object or a real number">>)]

\* ---------------------------------------------------------------- payloads

FieldNames == {"date", "party_size", "confirm", "notes"}

\* The data of an accepted elicitation.  kind: "object" (a model instance,
\* fields are attributes), "dict" (fields are keys, not attributes), "None",
\* or "faulty" (an object whose attribute access raises RuntimeError).
Payload(kind, d, p, c, n) ==
    [kind |-> kind, date |-> d, party_size |-> p, confirm |-> c, notes |-> n]

NoData == Payload("None", Absent, Absent, Absent, Absent)
Faulty == Payload("faulty", Absent, Absent, Absent, Absent)

\* The outcome of one ctx.elicit round trip: one of the three result classes,
\* or an exception raised while awaiting the reply.
Accepted(data) == [kind |-> "Accepted",  data |-> data,   exc |-> NoExc]
Declined       == [kind |-> "Declined",  data |-> NoData, exc |-> NoExc]
Cancelled      == [kind |-> "Cancelled", data |-> NoData, exc |-> NoExc]
Raised(type)   == [kind |-> "raise",     data |-> NoData,
                   exc |-> Exc(type, <<"elicit failed">>)]
NoOutcome      == [kind |-> "",          data |-> NoData, exc |-> NoExc]

\* ------------------------------------------------- elicit_with_validation

\* What a call returns to book_table: None, a field's value, the whole
\* payload, or an exception that leaves the function.
RetNone     == [kind |-> "None",  val |-> NoneV, data |-> NoData, exc |-> NoExc]
RetValue(v) == IF v.t = "None" THEN RetNone
               ELSE [kind |-> "value", val |-> v, data |-> NoData, exc |-> NoExc]
RetData(d)  == IF d.kind = "None" THEN RetNone
               ELSE [kind |-> "data", val |-> NoneV, data |-> d, exc |-> NoExc]
RetRaise(e) == [kind |-> "raise", val |-> NoneV, data |-> NoData, exc |-> e]

IsNone(r) == r.kind = "None"

\* hasattr(data, name): [ok, has, exc].
HasAttr(data, name) ==
    CASE data.kind = "object" -> [ok |-> TRUE, has |-> data[name].t # "absent", exc |-> NoExc]
      [] data.kind = "faulty" -> [ok |-> FALSE, has |-> FALSE,
                                  exc |-> Exc("RuntimeError", <<"unreadable attribute">>)]
      [] OTHER -> [ok |-> TRUE, has |-> FALSE, exc |-> NoExc]

\* ElicitTry with the field_name ignored: the whole payload is returned
\* whatever was asked for.
ElicitTry_WholePayload(outcome, field_name) ==
    CASE outcome.kind = "raise" -> RetRaise(outcome.exc)
      [] outcome.kind = "Accepted" -> RetData(outcome.data)
      [] OTHER -> RetNone

\* The body of the try block: await ctx.elicit, then the match statement.
\* field_name is "" for None.
ElicitTry(outcome, field_name) ==
    CASE outcome.kind = "raise" -> RetRaise(outcome.exc)
      [] outcome.kind = "Accepted" ->
           IF field_name = "" THEN RetData(outcome.data)
           ELSE LET h == HasAttr(outcome.data, field_name)
                IN  IF ~h.ok THEN RetRaise(h.exc)
                    ELSE IF h.has THEN RetValue(outcome.data[field_name])
                    ELSE RetNone
      [] outcome.kind = "Declined" -> RetNone
      [] outcome.kind = "Cancelled" -> RetNone
      [] OTHER -> RetNone

\* ElicitExcept without its second clause: only disconnects are caught.
ElicitExcept_Reraises(e) ==
    IF e.type \in DisconnectTypes THEN RetNone ELSE RetRaise(e)

\* ElicitExcept without its first clause taking effect: a disconnect
\* leaves the gateway.
ElicitExcept_DisconnectEscapes(e) ==
    IF e.type \in DisconnectTypes THEN RetRaise(e) ELSE RetNone

\* The two except clauses of elicit_with_validation (every exception of the
\* model is an Exception).
ElicitExcept(e) ==
    IF e.type \in DisconnectTypes THEN RetNone
    ELSE RetNone

elicit_with_validation(outcome, field_name) ==
    LET r == ElicitTry(outcome, field_name)
    IN  IF r.kind = "raise" THEN ElicitExcept(r.exc) ELSE r

\* ------------------------------------------------------------ validate_date

\* validate_date as evaluated on the day `day`.
ValidOn(date_str, day) ==
    LET booking_date == strptime(date_str)
    IN  IF booking_date.ok THEN DateGE(booking_date.ymd, day) ELSE FALSE

\* ------------------------------------------------------------------- state

VARIABLES
    today,        \* datetime.now().date(), as <<year, month, day>>
    pc,           \* where each invocation of book_table stands
    date,         \* book_table's local date
    party_size,   \* book_table's local party_size
    message,      \* the prompt of the last elicitation issued
    elicits,      \* the schemas of the elicitations issued so far, in order
    outcome,      \* the outcome of the last ctx.elicit round trip
    ret,          \* what elicit_with_validation last returned
    result,       \* the string book_table returned
    arg_date,     \* the date argument of the invocation
    arg_party,    \* the party_size argument of the invocation
    checkedOn,    \* the day validate_date last ran in the invocation
    exchanges     \* the ctx.elicit round trips made for the invocation

vars == <<today, pc, date, party_size, message, elicits, outcome, ret, result,
          arg_date, arg_party, checkedOn, exchanges>>

validate_date(date_str) == ValidOn(date_str, today)

Never == <<0, 0, 0>>

\* ------------------------------------------------------------------ inputs

\* Candidate dates: empty, the spec's two malformed examples, the day
\* before Today0, Today0, the day after it written without zero padding,
\* and a far date.
DateSamples ==
    { <<>>,
      <<"1", "3", "-", "2", "0", "2", "5", "-", "0", "1">>,
      <<"2", "0", "2", "4", "-", "0", "2", "-", "3", "0">>,
      <<"2", "0", "2", "5", "-", "0", "2", "-", "2", "7">>,
      <<"2", "0", "2", "5", "-", "0", "2", "-", "2", "8">>,
      <<"2", "0", "2", "5", "-", "3", "-", "1">>,
      <<"2", "0", "9", "9", "-", "0", "1", "-", "0", "1">> }

PartySamples == {-1, 0, 1, 4, 20, 21}

NotesSamples == { <<>>, <<"window seat">> }

Failures == {Raised("ClosedResourceError"), Raised("ConnectionError"),
             Raised("RuntimeError")}

Refusals == {Declined, Cancelled} \cup Failures

\* What the remote actor may answer to each schema: conforming payloads,
\* non-conforming ones (a field of the wrong type, a missing field, a
\* mapping, no data, an unreadable object), a refusal or a failure.
DateOutcomes ==
    {Accepted(Payload("object", StrV(d), Absent, Absent, Absent)) : d \in DateSamples}
    \cup {Accepted(Payload("object", IntV(5), Absent, Absent, Absent)),
          Accepted(Payload("object", NoneV, Absent, Absent, Absent)),
          Accepted(Payload("object", Absent, Absent, Absent, Absent)),
          Accepted(Payload("dict",
                           StrV(<<"2", "0", "9", "9", "-", "0", "1", "-", "0", "1">>),
                           Absent, Absent, Absent)),
          Accepted(NoData), Accepted(Faulty)}
    \cup Refusals

PartyOutcomes ==
    {Accepted(Payload("object", Absent, IntV(k), Absent, Absent)) : k \in PartySamples}
    \cup {Accepted(Payload("object", Absent, StrV(<<"4">>), Absent, Absent)),
          Accepted(Payload("object", Absent, StrV(<<"a", "b", "c">>), Absent, Absent)),
          Accepted(Payload("object", Absent, Absent, Absent, Absent)),
          Accepted(Payload("dict", Absent, IntV(4), Absent, Absent)),
          Accepted(NoData), Accepted(Faulty)}
    \cup Refusals

\* An accepted confirmation that also carries a date and a party size.
OverridingConfirmation ==
    Payload("object",
            StrV(<<"2", "0", "9", "9", "-", "0", "1", "-", "0", "1">>),
            IntV(4), BoolV(TRUE), StrV(<<>>))

ConfirmOutcomes ==
    {Accepted(Payload(k, Absent, Absent, c, n)) :
        k \in {"object", "dict"},
        c \in {BoolV(TRUE), BoolV(FALSE), Absent},
        n \in {StrV(x) : x \in NotesSamples} \cup {Absent}}
    \cup {Accepted(NoData), Accepted(Faulty), Accepted(OverridingConfirmation)}
    \cup Refusals

\* -------------------------------------------------- book_table: its strings

\* The emoji of the source's literals are spelled out: U+2705 is the check
\* mark of the success message, U+274C the cross mark of the others.
DateCancelled    == <<"Date input cancelled. Booking cancelled.">>
PartyCancelled   == <<"Party size input cancelled. Booking cancelled.">>
ConfirmCancelled == <<"Booking confirmation cancelled.">>
NotConfirmed     == <<"U+274C Booking cancelled.">>
Disconnected     == <<"Client disconnected - booking cancelled.">>
dlp_str          == "dlp_str"

Failed(e) == <<"U+274C Booking failed due to unexpected error: ">> \o e.msg

ConfirmError(kind, e) ==
    <<"U+274C Error processing confirmation: ", "<class '", kind, "'>", " - ">> \o e.msg

\* Success with the notes dropped from the message.
Success_NoNotes(p, d, notes_value) ==
    <<"U+2705 Your table for ">> \o IntToStr(p) \o <<" people on ">> \o d
        \o <<" has been booked.">> \o <<" ", "dlp_content: ", dlp_str>>

Success(p, d, notes_value) ==
    LET notes_text == IF Truthy(notes_value)
                      THEN <<" Notes: ">> \o PyStr(notes_value) ELSE <<>>
    IN  <<"U+2705 Your table for ">> \o IntToStr(p) \o <<" people on ">> \o d
        \o <<" has been booked.">> \o notes_text \o <<" ", "dlp_content: ", dlp_str>>

DateGeneric  == <<"Please enter the date for your booking:">>
PartyGeneric == <<"Please enter the party size for your booking:">>

DateInvalid(d) ==
    <<"Invalid date '">> \o d \o <<"'. Please enter a valid ", "future date:">>

PartyInvalid(p) ==
    <<"Invalid party size '">> \o IntToStr(p)
        \o <<"'. Please enter ", "a valid number of people:">>

ConfirmPrompt(p, d) ==
    <<"Please confirm your booking for ">> \o IntToStr(p) \o <<" people on ">>
        \o d \o <<".">>

\* ------------------------------------------------ book_table: its segments

\* Each operator is the code between two suspension points, as the record
\* of what it leaves behind; the actions below apply them.

\* BookTableExcept without its second clause: other errors propagate.
BookTableExcept_DisconnectOnly(e) ==
    IF e.type \in DisconnectTypes
    THEN [pc |-> "done", result |-> Disconnected]
    ELSE [pc |-> "raised", result |-> <<>>]

\* The outer except clauses (every exception of the model is an Exception).
BookTableExcept(e) ==
    IF e.type \in DisconnectTypes
    THEN [pc |-> "done", result |-> Disconnected]
    ELSE [pc |-> "done", result |-> Failed(e)]

\* while not date or not validate_date(date)
DateLoopCond(d) == d = <<>> \/ ~validate_date(d)

\* The message of a date elicitation.
DatePrompt(d) ==
    IF d # <<>> /\ ~validate_date(d) THEN DateInvalid(d) ELSE DateGeneric

\* DateAfterElicit without the return on None: the loop goes round again.
DateAfterElicit_Reprompts(r, d) ==
    IF r.kind = "raise"
    THEN [pc |-> "done", result |-> Failed(r.exc), date |-> d]
    ELSE IF IsNone(r)
    THEN [pc |-> "AcquireDate", result |-> <<>>, date |-> d]
    ELSE [pc |-> "AcquireDate", result |-> <<>>, date |-> PyStr(r.val)]

\* After the date elicitation returned r: cancel, or take the candidate.
DateAfterElicit(r, d) ==
    IF r.kind = "raise"
    THEN [pc |-> BookTableExcept(r.exc).pc, result |-> BookTableExcept(r.exc).result,
          date |-> d]
    ELSE IF IsNone(r)
    THEN [pc |-> "done", result |-> DateCancelled, date |-> d]
    ELSE [pc |-> "AcquireDate", result |-> <<>>, date |-> PyStr(r.val)]

\* PartyLoopCond that never lets the loop end.
PartyLoopCond_Always(p) == TRUE

\* PartyLoopCond testing only for negative sizes.
PartyLoopCond_Negative(p) == p < 0

\* PartyLoopCond off by one: a party of one is asked again.
PartyLoopCond_OffByOne(p) == p = 0 \/ p <= 1

\* while not party_size or party_size <= 0
PartyLoopCond(p) == p = 0 \/ p <= 0

\* PartyPrompt that never names the rejected value.
PartyPrompt_AlwaysGeneric(p) == PartyGeneric

\* The message of a party-size elicitation.
PartyPrompt(p) ==
    IF p <= 0 /\ p # 0 THEN PartyInvalid(p) ELSE PartyGeneric

\* After the party-size elicitation returned r.
PartyAfterElicit(r, p) ==
    IF r.kind = "raise"
    THEN [pc |-> BookTableExcept(r.exc).pc, result |-> BookTableExcept(r.exc).result,
          party_size |-> p]
    ELSE IF IsNone(r)
    THEN [pc |-> "done", result |-> PartyCancelled, party_size |-> p]
    ELSE LET k == PyInt(r.val)
         IN  IF k.ok
             THEN [pc |-> "AcquirePartySize", result |-> <<>>, party_size |-> k.n]
             ELSE [pc |-> BookTableExcept(k.exc).pc,
                   result |-> BookTableExcept(k.exc).result, party_size |-> p]

\* ReadConfirmation reading both fields without a default: a missing one
\* raises (KeyError on a dict, AttributeError on an object).
ReadConfirmation_NoDefault(r) ==
    LET c == r.data
    IN  IF r.kind = "data" /\ c.kind = "faulty"
        THEN [ok |-> FALSE, confirm |-> BoolV(FALSE), notes |-> StrV(<<>>),
              exc |-> HasAttr(c, "confirm").exc]
        ELSE IF r.kind = "data" /\ (c.confirm.t = "absent" \/ c.notes.t = "absent")
        THEN [ok |-> FALSE, confirm |-> BoolV(FALSE), notes |-> StrV(<<>>),
              exc |-> Exc(IF c.kind = "dict" THEN "KeyError" ELSE "AttributeError",
                          <<"missing field">>)]
        ELSE IF r.kind = "data"
        THEN [ok |-> TRUE, confirm |-> c.confirm, notes |-> c.notes, exc |-> NoExc]
        ELSE [ok |-> TRUE, confirm |-> BoolV(FALSE), notes |-> StrV(<<>>),
              exc |-> NoExc]

\* ReadConfirmation taking a missing confirm flag for a confirmation.
ReadConfirmation_DefaultTrue(r) ==
    LET c == r.data
        dflt(v, d) == IF v.t = "absent" THEN d ELSE v
    IN  IF r.kind = "data" /\ c.kind = "faulty"
        THEN [ok |-> FALSE, confirm |-> BoolV(FALSE), notes |-> StrV(<<>>),
              exc |-> HasAttr(c, "confirm").exc]
        ELSE IF r.kind = "data"
        THEN [ok |-> TRUE, confirm |-> dflt(c.confirm, BoolV(TRUE)),
              notes |-> dflt(c.notes, StrV(<<>>)), exc |-> NoExc]
        ELSE [ok |-> TRUE, confirm |-> BoolV(TRUE), notes |-> StrV(<<>>),
              exc |-> NoExc]

\* The confirm flag and the notes read from the returned confirmation:
\* .get with a default on a dict, hasattr then the attribute otherwise.
ReadConfirmation(r) ==
    LET c == r.data
        dflt(v, d) == IF v.t = "absent" THEN d ELSE v
    IN  IF r.kind = "data" /\ c.kind = "faulty"
        THEN [ok |-> FALSE, confirm |-> BoolV(FALSE), notes |-> StrV(<<>>),
              exc |-> HasAttr(c, "confirm").exc]
        ELSE IF r.kind = "data"
        THEN [ok |-> TRUE, confirm |-> dflt(c.confirm, BoolV(FALSE)),
              notes |-> dflt(c.notes, StrV(<<>>)), exc |-> NoExc]
        ELSE [ok |-> TRUE, confirm |-> BoolV(FALSE), notes |-> StrV(<<>>),
              exc |-> NoExc]

\* ConfirmAfterElicit booking the date and the party size of the confirmation
\* payload when it carries them.
ConfirmAfterElicit_PayloadWins(r, p, d) ==
    IF r.kind = "raise" THEN BookTableExcept(r.exc)
    ELSE IF IsNone(r) THEN [pc |-> "done", result |-> ConfirmCancelled]
    ELSE LET c == ReadConfirmation(r)
             pp == IF r.kind = "data" /\ r.data.party_size.t = "int"
                   THEN r.data.party_size.n ELSE p
             dd == IF r.kind = "data" /\ r.data.date.t = "str"
                   THEN r.data.date.s ELSE d
         IN  IF ~c.ok
             THEN [pc |-> "done", result |-> ConfirmError(r.data.kind, c.exc)]
             ELSE IF Truthy(c.confirm)
             THEN [pc |-> "done", result |-> Success(pp, dd, c.notes)]
             ELSE [pc |-> "done", result |-> NotConfirmed]

\* ConfirmAfterElicit asking again when the booking is not confirmed.
ConfirmAfterElicit_AsksAgain(r, p, d) ==
    IF r.kind = "raise" THEN [pc |-> "done", result |-> Failed(r.exc)]
    ELSE IF IsNone(r) THEN [pc |-> "done", result |-> ConfirmCancelled]
    ELSE IF r.kind = "data" /\ r.data.kind \in {"object", "dict"}
            /\ r.data.confirm = BoolV(TRUE)
    THEN [pc |-> "done", result |-> Success(p, d, StrV(<<>>))]
    ELSE [pc |-> "Confirm", result |-> <<>>]

\* After the Confirm elicitation returned r.
ConfirmAfterElicit(r, p, d) ==
    IF r.kind = "raise" THEN BookTableExcept(r.exc)
    ELSE IF IsNone(r) THEN [pc |-> "done", result |-> ConfirmCancelled]
    ELSE LET c == ReadConfirmation(r)
         IN  IF ~c.ok
             THEN [pc |-> "done", result |-> ConfirmError(r.data.kind, c.exc)]
             ELSE IF Truthy(c.confirm)
             THEN [pc |-> "done", result |-> Success(p, d, c.notes)]
             ELSE [pc |-> "done", result |-> NotConfirmed]

\* ------------------------------------------------------------------ actions

\* Invocation 1 has been called with some arguments; invocation 2 has not
\* been called.
Init ==
    /\ today = Today0
    /\ pc = [i \in Invs |-> IF i = 1 THEN "AcquireDate" ELSE "idle"]
    /\ \E d \in DateSamples, p \in PartySamples :
          /\ date = [i \in Invs |-> IF i = 1 THEN d ELSE <<>>]
          /\ party_size = [i \in Invs |-> IF i = 1 THEN p ELSE 0]
    /\ arg_date = date
    /\ arg_party = party_size
    /\ message = [i \in Invs |-> <<>>]
    /\ elicits = [i \in Invs |-> <<>>]
    /\ outcome = [i \in Invs |-> NoOutcome]
    /\ ret = [i \in Invs |-> RetNone]
    /\ result = [i \in Invs |-> <<>>]
    /\ checkedOn = [i \in Invs |-> Never]
    /\ exchanges = [i \in Invs |-> 0]

\* The server's clock passes midnight.
Tick ==
    /\ today # LastDay
    /\ today' = NextDay(today)
    /\ UNCHANGED <<pc, date, party_size, message, elicits, outcome, ret, result,
                   arg_date, arg_party, checkedOn, exchanges>>

\* One test of the date loop: leave it, or build the prompt and call the
\* gateway, which suspends in ctx.elicit.
DateLoop(i) ==
    /\ pc[i] = "AcquireDate"
    /\ checkedOn' = [checkedOn EXCEPT ![i] = IF date[i] = <<>> THEN @ ELSE today]
    /\ IF DateLoopCond(date[i])
       THEN /\ Len(elicits[i]) < MaxReprompts
            /\ message' = [message EXCEPT ![i] = DatePrompt(date[i])]
            /\ elicits' = [elicits EXCEPT ![i] = Append(@, "GetDate")]
            /\ pc' = [pc EXCEPT ![i] = "DateElicit"]
       ELSE /\ pc' = [pc EXCEPT ![i] = "AcquirePartySize"]
            /\ UNCHANGED <<message, elicits>>
    /\ UNCHANGED <<today, date, party_size, outcome, ret, result, arg_date, arg_party,
                   exchanges>>

\* The schema and the field_name of the pending elicit_with_validation call.
PendingField(i) ==
    CASE pc[i] = "DateElicit" -> "date"
      [] pc[i] = "PartyElicit" -> "party_size"
      [] OTHER -> ""

PendingOutcomes(i) ==
    CASE pc[i] = "DateElicit" -> DateOutcomes
      [] pc[i] = "PartyElicit" -> PartyOutcomes
      [] OTHER -> ConfirmOutcomes

Returned(at) ==
    CASE at = "DateElicit" -> "DateReturned"
      [] at = "PartyElicit" -> "PartyReturned"
      [] OTHER -> "ConfirmReturned"

\* RoundTrips with a retry: a failed round trip is tried once more.
RoundTrips_RetryOnFailure(o) == IF o.kind = "raise" THEN 2 ELSE 1

\* The ctx.elicit round trips one call of elicit_with_validation makes that
\* ends with outcome o: the single await of the try block, never repeated.
RoundTrips(o) == 1

\* The round trip of the pending call ends with an outcome of the set O and
\* elicit_with_validation returns to book_table.
ElicitFrom(i, O) ==
    /\ pc[i] \in {"DateElicit", "PartyElicit", "ConfirmElicit"}
    /\ \E o \in O :
          /\ outcome' = [outcome EXCEPT ![i] = o]
          /\ ret' = [ret EXCEPT ![i] = elicit_with_validation(o, PendingField(i))]
          /\ exchanges' = [exchanges EXCEPT ![i] = @ + RoundTrips(o)]
    /\ pc' = [pc EXCEPT ![i] = Returned(pc[i])]
    /\ UNCHANGED <<today, date, party_size, message, elicits, result,
                   arg_date, arg_party, checkedOn>>

Elicit(i) == ElicitFrom(i, PendingOutcomes(i))

\* DateReturn writing the new candidate into one draft that every invocation
\* shares.
DateReturn_SharedDraft(i) ==
    /\ pc[i] = "DateReturned"
    /\ LET a == DateAfterElicit(ret[i], date[i])
       IN  /\ pc' = [pc EXCEPT ![i] = a.pc]
           /\ result' = [result EXCEPT ![i] = a.result]
           /\ date' = [j \in Invs |-> IF pc[j] = "idle" THEN date[j] ELSE a.date]
    /\ UNCHANGED <<today, party_size, message, elicits, outcome, ret,
                   arg_date, arg_party, checkedOn, exchanges>>

DateReturn(i) ==
    /\ pc[i] = "DateReturned"
    /\ LET a == DateAfterElicit(ret[i], date[i])
       IN  /\ pc' = [pc EXCEPT ![i] = a.pc]
           /\ result' = [result EXCEPT ![i] = a.result]
           /\ date' = [date EXCEPT ![i] = a.date]
    /\ UNCHANGED <<today, party_size, message, elicits, outcome, ret,
                   arg_date, arg_party, checkedOn, exchanges>>

PartyLoop(i) ==
    /\ pc[i] = "AcquirePartySize"
    /\ IF PartyLoopCond(party_size[i])
       THEN /\ Len(elicits[i]) < MaxReprompts
            /\ message' = [message EXCEPT ![i] = PartyPrompt(party_size[i])]
            /\ elicits' = [elicits EXCEPT ![i] = Append(@, "GetPartySize")]
            /\ pc' = [pc EXCEPT ![i] = "PartyElicit"]
       ELSE /\ pc' = [pc EXCEPT ![i] = "Confirm"]
            /\ UNCHANGED <<message, elicits>>
    /\ UNCHANGED <<today, date, party_size, outcome, ret, result,
                   arg_date, arg_party, checkedOn, exchanges>>

PartyReturn(i) ==
    /\ pc[i] = "PartyReturned"
    /\ LET a == PartyAfterElicit(ret[i], party_size[i])
       IN  /\ pc' = [pc EXCEPT ![i] = a.pc]
           /\ result' = [result EXCEPT ![i] = a.result]
           /\ party_size' = [party_size EXCEPT ![i] = a.party_size]
    /\ UNCHANGED <<today, date, message, elicits, outcome, ret,
                   arg_date, arg_party, checkedOn, exchanges>>

\* The Confirm elicitation is issued.
Confirm(i) ==
    /\ pc[i] = "Confirm"
    /\ message' = [message EXCEPT ![i] = ConfirmPrompt(party_size[i], date[i])]
    /\ elicits' = [elicits EXCEPT ![i] = Append(@, "ConfirmBooking")]
    /\ pc' = [pc EXCEPT ![i] = "ConfirmElicit"]
    /\ UNCHANGED <<today, date, party_size, outcome, ret, result,
                   arg_date, arg_party, checkedOn, exchanges>>

ConfirmReturn(i) ==
    /\ pc[i] = "ConfirmReturned"
    /\ LET a == ConfirmAfterElicit(ret[i], party_size[i], date[i])
       IN  /\ pc' = [pc EXCEPT ![i] = a.pc]
           /\ result' = [result EXCEPT ![i] = a.result]
    /\ UNCHANGED <<today, date, party_size, message, elicits, outcome, ret,
                   arg_date, arg_party, checkedOn, exchanges>>

book_table(i) ==
    \/ DateLoop(i)
    \/ DateReturn(i)
    \/ PartyLoop(i)
    \/ PartyReturn(i)
    \/ Confirm(i)
    \/ ConfirmReturn(i)

Next ==
    \/ Tick
    \/ \E i \in Invs : book_table(i)
    \/ \E i \in Invs : Elicit(i)

Spec == Init /\ [][Next]_vars

\* ------------------------------------------------ a remote actor who settles

\* The value r the gateway returns to the pending call ends the loop the call
\* belongs to: no value, or a date that is valid whatever the day, or a
\* positive party size, or one int() cannot convert.
Settles(i, r) ==
    CASE pc[i] = "DateElicit" ->
           IsNone(r) \/ r.kind = "raise" \/ ValidOn(PyStr(r.val), LastDay)
      [] pc[i] = "PartyElicit" ->
           IsNone(r) \/ r.kind = "raise" \/ ~PyInt(r.val).ok
               \/ PyInt(r.val).n > 0
      [] OTHER -> TRUE

\* The prompts MaxReprompts still allows leave room for an answer that does
\* not settle: one more prompt for this field, and one for the party size
\* when it is still to be asked.
Room(i) ==
    Len(elicits[i]) + 1
        + (IF pc[i] = "DateElicit" /\ party_size[i] <= 0 THEN 1 ELSE 0)
      <= MaxReprompts

\* A reply of an actor who, within the prompts the model allows, supplies a
\* conforming value or declines or cancels.
ElicitLive(i) ==
    /\ Elicit(i)
    /\ Room(i) \/ Settles(i, ret'[i])

LiveNext ==
    \/ Tick
    \/ \E i \in Invs : book_table(i)
    \/ \E i \in Invs : ElicitLive(i)

\* book_table runs whenever it can, and every elicitation is answered.
LiveSpec ==
    /\ Init
    /\ [][LiveNext]_vars
    /\ \A i \in Invs : WF_vars(book_table(i)) /\ WF_vars(ElicitLive(i))

\* ------------------------------------------------- two invocations at once

\* The arguments of the calls and the replies of the actors when two
\* invocations run together.
Args2 == { <<<<>>, 0>>, <<<<"2", "0", "2", "5", "-", "0", "2", "-", "2", "8">>, 4>> }

Replies2(i) ==
    CASE pc[i] = "DateElicit" ->
           {Accepted(Payload("object", StrV(d), Absent, Absent, Absent)) :
               d \in {<<"2", "0", "2", "5", "-", "0", "2", "-", "2", "7">>,
                      <<"2", "0", "9", "9", "-", "0", "1", "-", "0", "1">>}}
           \cup {Declined}
      [] pc[i] = "PartyElicit" ->
           {Accepted(Payload("object", Absent, IntV(k), Absent, Absent)) :
               k \in {-1, 4}}
           \cup {Cancelled}
      [] OTHER ->
           {Accepted(Payload("object", Absent, Absent, BoolV(c), StrV(<<>>))) :
               c \in BOOLEAN}
           \cup {Raised("ConnectionError")}

\* Both invocations have been called, each with its own arguments.
Init2 ==
    /\ today = Today0
    /\ pc = [i \in Invs |-> "AcquireDate"]
    /\ \E a \in [Invs -> Args2] :
          /\ date = [i \in Invs |-> a[i][1]]
          /\ party_size = [i \in Invs |-> a[i][2]]
    /\ arg_date = date
    /\ arg_party = party_size
    /\ message = [i \in Invs |-> <<>>]
    /\ elicits = [i \in Invs |-> <<>>]
    /\ outcome = [i \in Invs |-> NoOutcome]
    /\ ret = [i \in Invs |-> RetNone]
    /\ result = [i \in Invs |-> <<>>]
    /\ checkedOn = [i \in Invs |-> Never]
    /\ exchanges = [i \in Invs |-> 0]

Elicit2(i) == ElicitFrom(i, Replies2(i))

\* The event loop runs one invocation up to its next suspension point, or
\* delivers one reply.
Next2 ==
    \/ Tick
    \/ \E i \in Invs : book_table(i)
    \/ \E i \in Invs : Elicit2(i)

Spec2 == Init2 /\ [][Next2]_vars

\* ------------------------------------------------- vocabulary of the claims

\* The pattern of ElicitationSchema.GetDate: ^\d{4}-\d{2}-\d{2}$.
IsoForm(s) ==
    /\ Len(s) = 10
    /\ \A k \in {1, 2, 3, 4, 6, 7, 9, 10} : s[k] \in Digits
    /\ s[5] = "-" /\ s[8] = "-"

\* The bounds of ElicitationSchema.GetPartySize.
PartyMin == 1
PartyMax == 20

\* The <<year, month, day>> a string in YYYY-MM-DD form names.
IsoDate(s) ==
    <<DigitsToNat(SubSeq(s, 1, 4)), DigitsToNat(SubSeq(s, 6, 7)),
      DigitsToNat(SubSeq(s, 9, 10))>>

OnCalendar(d) ==
    d[1] >= 1 /\ d[2] \in 1..12 /\ d[3] \in 1..DaysInMonth(d[1], d[2])

\* s is a calendar date written in YYYY-MM-DD form.
WellFormedDate(s) == IsoForm(s) /\ OnCalendar(IsoDate(s))

\* s is such a date and not before `day`.
AcceptableOn(s, day) == WellFormedDate(s) /\ DateGE(IsoDate(s), day)

Last(q) == q[Len(q)]

\* The field_name passed with each schema ("" for None).
FieldOf(schema) ==
    CASE schema = "GetDate" -> "date"
      [] schema = "GetPartySize" -> "party_size"
      [] OTHER -> ""

\* The cancellation string of the state that elicits with each schema.
CancelOf(schema) ==
    CASE schema = "GetDate" -> DateCancelled
      [] schema = "GetPartySize" -> PartyCancelled
      [] OTHER -> ConfirmCancelled

AwaitingReply(i) == pc[i] \in {"DateElicit", "PartyElicit", "ConfirmElicit"}

\* elicit_with_validation has returned from the last elicitation issued.
HasReturned(i) == elicits[i] # <<>> /\ ~AwaitingReply(i)

\* ------------------------------------------------------------------ claims

\* C1: when elicit_with_validation returns None in AcquireDate,
\* AcquirePartySize or Confirm, book_table's next step returns that state's
\* cancellation string without issuing an elicitation, and once it has
\* returned it issues none and enters no other state.
C1_NoValueCancels ==
    [][\A i \in Invs :
        /\ (pc[i] = "DateReturned" /\ IsNone(ret[i]) /\ pc'[i] # pc[i])
              => (pc'[i] = "done" /\ result'[i] = DateCancelled
                  /\ elicits'[i] = elicits[i])
        /\ (pc[i] = "PartyReturned" /\ IsNone(ret[i]) /\ pc'[i] # pc[i])
              => (pc'[i] = "done" /\ result'[i] = PartyCancelled
                  /\ elicits'[i] = elicits[i])
        /\ (pc[i] = "ConfirmReturned" /\ IsNone(ret[i]) /\ pc'[i] # pc[i])
              => (pc'[i] = "done" /\ result'[i] = ConfirmCancelled
                  /\ elicits'[i] = elicits[i])
        /\ pc[i] = "done"
              => (pc'[i] = "done" /\ result'[i] = result[i]
                  /\ elicits'[i] = elicits[i])]_vars

\* A date was accepted, then the party-size elicitation returned None and
\* book_table returned the party-size cancellation.
C1_Witness ==
    /\ pc[1] = "done" /\ IsNone(ret[1])
    /\ elicits[1] = <<"GetDate", "GetPartySize">>
    /\ result[1] = PartyCancelled

\* C2: book_table never propagates an error: whatever the arguments and the
\* outcomes, it is running or it has returned a string.
C2_AlwaysReturnsString ==
    \A i \in Invs :
        /\ pc[i] # "raised"
        /\ pc[i] = "done" => result[i] # <<>>
        /\ pc[i] # "done" => result[i] = <<>>

\* The accepted party size "abc" made int() raise, and book_table returned
\* the failure string.
C2_Witness ==
    /\ pc[1] = "done"
    /\ outcome[1].kind = "Accepted"
    /\ outcome[1].data.party_size = StrV(<<"a", "b", "c">>)
    /\ result[1] = Failed(PyInt(StrV(<<"a", "b", "c">>)).exc)

\* C3: elicit_with_validation returns the whole payload when accepted with
\* field_name None, the field's value when accepted with a field_name the
\* payload has as an attribute, None when it has not, and None when declined
\* or cancelled.
C3_OutcomeMapping ==
    \A i \in Invs : HasReturned(i) =>
        LET o == outcome[i]
            f == FieldOf(Last(elicits[i]))
            r == ret[i]
            plain == o.data.kind \in {"object", "dict", "None"}
            has == o.data.kind = "object" /\ o.data[f].t # "absent"
        IN  /\ (o.kind = "Accepted" /\ f = "" /\ o.data.kind # "None")
                  => (r.kind = "data" /\ r.data = o.data)
            /\ (o.kind = "Accepted" /\ f = "" /\ o.data.kind = "None")
                  => IsNone(r)
            /\ (o.kind = "Accepted" /\ f # "" /\ plain /\ has /\ o.data[f].t # "None")
                  => (r.kind = "value" /\ r.val = o.data[f])
            /\ (o.kind = "Accepted" /\ f # "" /\ plain /\ has /\ o.data[f].t = "None")
                  => IsNone(r)
            /\ (o.kind = "Accepted" /\ f # "" /\ plain /\ ~has) => IsNone(r)
            /\ o.kind \in {"Declined", "Cancelled"} => IsNone(r)

\* An accepted party-size payload that is a mapping has no party_size
\* attribute: the gateway returned None.
C3_Witness ==
    /\ pc[1] = "PartyReturned"
    /\ outcome[1].kind = "Accepted" /\ outcome[1].data.kind = "dict"
    /\ outcome[1].data.party_size = IntV(4)
    /\ IsNone(ret[1])

\* C4: elicit_with_validation never raises: a disconnect or any other
\* failure of the round trip, or of reading the payload, makes it return
\* None.
C4_GatewayNeverRaises ==
    \A i \in Invs :
        /\ ret[i].kind # "raise"
        /\ (HasReturned(i) /\ outcome[i].kind = "raise") => IsNone(ret[i])
        /\ (HasReturned(i) /\ outcome[i].kind = "Accepted"
              /\ outcome[i].data.kind = "faulty" /\ FieldOf(Last(elicits[i])) # "")
              => IsNone(ret[i])

\* The date round trip failed with a RuntimeError and the gateway returned
\* None.
C4_Witness ==
    /\ pc[1] = "DateReturned"
    /\ outcome[1] = Raised("RuntimeError")
    /\ IsNone(ret[1])

\* C5: after a Declined outcome, a Cancelled outcome or a transport
\* disconnect, book_table's result is the cancellation string of the state
\* that issued the elicitation, the same for all three.
C5_RefusalsAlike ==
    \A i \in Invs :
        (pc[i] = "done"
            /\ outcome[i] \in {Declined, Cancelled}
                               \cup {Raised(x) : x \in DisconnectTypes})
        => result[i] = CancelOf(Last(elicits[i]))

\* The connection failed during the Confirm elicitation: the result is the
\* confirmation's cancellation string.
C5_Witness ==
    /\ pc[1] = "done"
    /\ outcome[1] = Raised("ConnectionError")
    /\ Last(elicits[1]) = "ConfirmBooking"
    /\ result[1] = ConfirmCancelled

\* C6: in AcquireDate a candidate that is empty, is not a calendar date in
\* YYYY-MM-DD form, or is such a date before the current date, makes
\* book_table issue another date elicitation instead of advancing; the prompt
\* names a non-empty candidate and is the generic one for the empty one.
C6_BadDateReprompts ==
    [][\A i \in Invs :
        (pc[i] = "AcquireDate" /\ pc'[i] # pc[i]
            /\ (date[i] = <<>> \/ ~AcceptableOn(date[i], today)))
        => /\ pc'[i] = "DateElicit"
           /\ elicits'[i] = Append(elicits[i], "GetDate")
           /\ message'[i] = IF date[i] = <<>> THEN DateGeneric
                            ELSE DateInvalid(date[i])]_vars

\* C7: validate_date accepts a string exactly when it is a calendar date in
\* YYYY-MM-DD form that is not before the server's current date.
C7_ValidateDateExact ==
    \A s \in DateSamples : validate_date(s) <=> AcceptableOn(s, today)

\* C8: in AcquirePartySize a candidate <= 0 makes book_table issue another
\* party-size elicitation, and a candidate in 1..20 makes it advance to
\* Confirm without one.
C8_PartySizeLoop ==
    [][\A i \in Invs :
        (pc[i] = "AcquirePartySize" /\ pc'[i] # pc[i])
        => /\ party_size[i] <= 0
                => (pc'[i] = "PartyElicit"
                    /\ elicits'[i] = Append(elicits[i], "GetPartySize"))
           /\ party_size[i] \in PartyMin..PartyMax
                => (pc'[i] = "Confirm" /\ elicits'[i] = elicits[i])]_vars

\* The actor answered the first party-size prompt with -1 and was asked
\* again, with the prompt that names -1.
C8_Witness ==
    /\ pc[1] = "PartyElicit"
    /\ party_size[1] = -1
    /\ elicits[1] = <<"GetPartySize", "GetPartySize">>
    /\ message[1] = PartyInvalid(-1)

\* An elicited party size of 20 advanced to Confirm.
C8_WitnessAdvance ==
    /\ pc[1] = "Confirm"
    /\ party_size[1] = 20
    /\ elicits[1] # <<>> /\ Last(elicits[1]) = "GetPartySize"

\* The Confirm elicitation has been issued, or success has been returned.
Confirming(i) ==
    \/ pc[i] \in {"ConfirmElicit", "ConfirmReturned"}
    \/ pc[i] = "done" /\ Contains(result[i], <<" has been booked.">>)

\* C9: once the Confirm elicitation is issued or success is returned, the
\* date is a calendar date in YYYY-MM-DD form that was not before the
\* current date when checked, and the party size is in 1..20.
C9_DraftFinal ==
    \A i \in Invs : Confirming(i) =>
        /\ AcceptableOn(date[i], checkedOn[i])
        /\ party_size[i] \in PartyMin..PartyMax

\* C10: with a pre-supplied date that is valid when checked and a
\* pre-supplied party size that is valid, no date and no party-size
\* elicitation is issued, and the Confirm elicitation is the only one.
C10_OnlyConfirm ==
    \A i \in Invs :
        (/\ checkedOn[i] # Never
         /\ ValidOn(arg_date[i], checkedOn[i])
         /\ arg_party[i] \in PartyMin..PartyMax)
        => /\ elicits[i] \in {<<>>, <<"ConfirmBooking">>}
           /\ pc[i] \in {"ConfirmElicit", "ConfirmReturned", "done"}
                => elicits[i] = <<"ConfirmBooking">>

\* Called with today's date and a party of four, book_table returned after
\* the Confirm elicitation alone.
C10_Witness ==
    /\ pc[1] = "done"
    /\ arg_date[1] = <<"2", "0", "2", "5", "-", "0", "2", "-", "2", "8">>
    /\ arg_party[1] = 4
    /\ elicits[1] = <<"ConfirmBooking">>

\* book_table has returned after a Confirm elicitation that was accepted
\* with a mapping or an object as its data.
ConfirmAnswered(i) ==
    /\ pc[i] = "done"
    /\ elicits[i] # <<>> /\ Last(elicits[i]) = "ConfirmBooking"
    /\ outcome[i].kind = "Accepted"
    /\ outcome[i].data.kind \in {"object", "dict"}

\* The part of the success message that echoes the draft.
Booked(p, d) ==
    <<"U+2705 Your table for ">> \o IntToStr(p) \o <<" people on ">> \o d
        \o <<" has been booked.">>

IsSuccess(s) == s # <<>> /\ Head(s) = "U+2705 Your table for "

\* C11: an accepted confirmation with confirm true gives a success string
\* holding the draft's party size, its date and, when notes is non-empty,
\* the notes; with confirm false it gives the cancellation string whatever
\* the notes.
C11_ConfirmFlagDecides ==
    \A i \in Invs : ConfirmAnswered(i) =>
        LET c == outcome[i].data
        IN  /\ c.confirm = BoolV(TRUE) =>
                  /\ IsSuccess(result[i])
                  /\ Contains(result[i], Booked(party_size[i], date[i]))
                  /\ (c.notes.t = "str" /\ c.notes.s # <<>>)
                        => Contains(result[i], <<" Notes: ">> \o c.notes.s)
            /\ c.confirm = BoolV(FALSE) => result[i] = NotConfirmed

\* The spec's example: the draft 2099-01-01 for 4, confirmed with the notes
\* "window seat".
C11_Witness ==
    /\ ConfirmAnswered(1)
    /\ date[1] = <<"2", "0", "9", "9", "-", "0", "1", "-", "0", "1">>
    /\ party_size[1] = 4
    /\ outcome[1].data.confirm = BoolV(TRUE)
    /\ outcome[1].data.notes = StrV(<<"window seat">>)
    /\ Contains(result[1], <<"4", " people on ", "2", "0", "9", "9", "-", "0", "1",
                             "-", "0", "1", " has been booked.", " Notes: ",
                             "window seat">>)

\* C12: an accepted confirmation, mapping or object, is read without
\* raising: a missing confirm flag reads as false and gives the cancellation
\* string; missing notes read as "" and, with confirm true, give a success
\* string with no notes suffix.
C12_MissingFieldsDefault ==
    \A i \in Invs : ConfirmAnswered(i) =>
        LET c == outcome[i].data
        IN  /\ c.confirm.t = "absent" => result[i] = NotConfirmed
            /\ (c.notes.t = "absent" /\ c.confirm = BoolV(TRUE)) =>
                  result[i] = Booked(party_size[i], date[i])
                                  \o <<" ", "dlp_content: ", dlp_str>>

\* A mapping with confirm true and no notes key gave the success string.
C12_Witness ==
    /\ ConfirmAnswered(1)
    /\ outcome[1].data.kind = "dict"
    /\ outcome[1].data.confirm = BoolV(TRUE)
    /\ outcome[1].data.notes.t = "absent"
    /\ IsSuccess(result[1])

\* The schema each suspended position elicits with.
SchemaAt(at) ==
    CASE at = "DateElicit" -> "GetDate"
      [] at = "PartyElicit" -> "GetPartySize"
      [] OTHER -> "ConfirmBooking"

ElicitPcs == {"DateElicit", "PartyElicit", "ConfirmElicit"}

\* C13: every step in which book_table calls elicit_with_validation issues
\* one elicitation, every call makes one ctx.elicit round trip, also when it
\* fails, and nothing else makes one: the round trips made are the
\* elicitations issued, less the one still awaited.
C13_OneExchangePerCall ==
    [][\A i \in Invs :
        /\ exchanges[i] = Len(elicits[i]) - (IF AwaitingReply(i) THEN 1 ELSE 0)
        /\ (pc'[i] \in ElicitPcs /\ pc[i] \notin ElicitPcs)
              => /\ elicits'[i] = Append(elicits[i], SchemaAt(pc'[i]))
                 /\ exchanges'[i] = exchanges[i]
        /\ (pc[i] \in ElicitPcs /\ pc'[i] # pc[i])
              => /\ pc'[i] = Returned(pc[i])
                 /\ exchanges'[i] = exchanges[i] + 1
                 /\ elicits'[i] = elicits[i]
        /\ (pc'[i] \notin ElicitPcs /\ pc[i] \notin ElicitPcs)
              => (elicits'[i] = elicits[i] /\ exchanges'[i] = exchanges[i])]_vars

\* Three elicitations, the last of which failed: three round trips.
C13_Witness ==
    /\ pc[1] = "done"
    /\ elicits[1] = <<"GetDate", "GetPartySize", "ConfirmBooking">>
    /\ outcome[1] = Raised("RuntimeError")
    /\ exchanges[1] = 3

\* The place of each schema in the order of the states.
Rank(schema) ==
    CASE schema = "GetDate" -> 1
      [] schema = "GetPartySize" -> 2
      [] OTHER -> 3

\* C14: the elicitations of one invocation are ordered by state: date
\* elicitations, then party-size elicitations, then at most one Confirm
\* elicitation, after which none is issued.
C14_OrderedByState ==
    \A i \in Invs :
        /\ \A j, k \in 1..Len(elicits[i]) :
              j < k => /\ Rank(elicits[i][j]) <= Rank(elicits[i][k])
                       /\ elicits[i][j] # "ConfirmBooking"
        /\ pc[i] \in {"ConfirmElicit", "ConfirmReturned"}
              => (elicits[i] # <<>> /\ Last(elicits[i]) = "ConfirmBooking")

\* A run through all three states, declined at Confirm.
C14_Witness ==
    /\ pc[1] = "done"
    /\ elicits[1] = <<"GetDate", "GetPartySize", "ConfirmBooking">>
    /\ outcome[1] = Declined

\* C15: when every elicitation is answered and the actor ends each reprompt
\* loop with a conforming value or a refusal, book_table eventually returns.
C15_Terminates ==
    \A i \in Invs : (pc[i] # "idle") ~> (pc[i] = "done")

\* The actor's first date was rejected, its second accepted, and the booking
\* was made.
C15_Witness ==
    /\ pc[1] = "done"
    /\ elicits[1] = <<"GetDate", "GetDate", "ConfirmBooking">>
    /\ IsSuccess(result[1])

\* C16: in AcquireDate and AcquirePartySize an accepted answer that is
\* invalid (a date that is not a calendar date in YYYY-MM-DD form on or after
\* the current date, a party size that is not a positive number) is followed
\* by another prompt for the same field, and book_table returns from these
\* states only when the gateway returned no value.
C16_InvalidityNeverEnds ==
    [][\A i \in Invs :
        /\ (pc[i] \in {"DateReturned", "PartyReturned"} /\ pc'[i] = "done")
              => IsNone(ret[i])
        /\ (pc[i] = "AcquireDate" /\ pc'[i] # pc[i] /\ elicits[i] # <<>>
              /\ ~AcceptableOn(date[i], today))
              => (pc'[i] = "DateElicit"
                  /\ elicits'[i] = Append(elicits[i], "GetDate"))
        /\ (pc[i] = "AcquirePartySize" /\ pc'[i] # pc[i] /\ elicits[i] # <<>>
              /\ Last(elicits[i]) = "GetPartySize" /\ party_size[i] <= 0)
              => (pc'[i] = "PartyElicit"
                  /\ elicits'[i] = Append(elicits[i], "GetPartySize"))]_vars

\* The locals of invocation i.
Local(i) ==
    <<pc[i], date[i], party_size[i], message[i], elicits[i], outcome[i], ret[i],
      result[i], checkedOn[i], exchanges[i]>>

\* The step invocation i takes is the one it takes when run alone: its new
\* draft, prompt and result are computed from its own locals, and from the
\* reply it receives when it is suspended in an elicitation.
AloneStep(i) ==
    CASE pc[i] = "AcquireDate" ->
           /\ pc'[i] = IF DateLoopCond(date[i]) THEN "DateElicit"
                       ELSE "AcquirePartySize"
           /\ message'[i] = IF DateLoopCond(date[i]) THEN DatePrompt(date[i])
                            ELSE message[i]
           /\ <<date'[i], party_size'[i], result'[i]>>
                 = <<date[i], party_size[i], result[i]>>
      [] pc[i] = "AcquirePartySize" ->
           /\ pc'[i] = IF PartyLoopCond(party_size[i]) THEN "PartyElicit"
                       ELSE "Confirm"
           /\ message'[i] = IF PartyLoopCond(party_size[i])
                            THEN PartyPrompt(party_size[i]) ELSE message[i]
           /\ <<date'[i], party_size'[i], result'[i]>>
                 = <<date[i], party_size[i], result[i]>>
      [] pc[i] = "Confirm" ->
           /\ pc'[i] = "ConfirmElicit"
           /\ message'[i] = ConfirmPrompt(party_size[i], date[i])
           /\ <<date'[i], party_size'[i], result'[i]>>
                 = <<date[i], party_size[i], result[i]>>
      [] pc[i] \in {"DateElicit", "PartyElicit", "ConfirmElicit"} ->
           /\ pc'[i] = Returned(pc[i])
           /\ ret'[i] = elicit_with_validation(outcome'[i], PendingField(i))
           /\ <<date'[i], party_size'[i], message'[i], result'[i]>>
                 = <<date[i], party_size[i], message[i], result[i]>>
      [] pc[i] = "DateReturned" ->
           /\ <<pc'[i], result'[i], date'[i]>>
                 = <<DateAfterElicit(ret[i], date[i]).pc,
                     DateAfterElicit(ret[i], date[i]).result,
                     DateAfterElicit(ret[i], date[i]).date>>
           /\ <<party_size'[i], message'[i]>> = <<party_size[i], message[i]>>
      [] pc[i] = "PartyReturned" ->
           /\ <<pc'[i], result'[i], party_size'[i]>>
                 = <<PartyAfterElicit(ret[i], party_size[i]).pc,
                     PartyAfterElicit(ret[i], party_size[i]).result,
                     PartyAfterElicit(ret[i], party_size[i]).party_size>>
           /\ <<date'[i], message'[i]>> = <<date[i], message[i]>>
      [] pc[i] = "ConfirmReturned" ->
           /\ <<pc'[i], result'[i]>>
                 = <<ConfirmAfterElicit(ret[i], party_size[i], date[i]).pc,
                     ConfirmAfterElicit(ret[i], party_size[i], date[i]).result>>
           /\ <<date'[i], party_size'[i], message'[i]>>
                 = <<date[i], party_size[i], message[i]>>
      [] OTHER -> FALSE

\* C17: when two invocations interleave at their elicitation suspension
\* points, a step that changes the locals of one invocation changes the locals
\* of no other and is the step that invocation takes when run alone, so each
\* invocation's draft, prompts and result depend only on its own arguments and
\* its own elicitation outcomes.
C17_Independent ==
    [][\A i \in Invs :
        (Local(i)' # Local(i))
        => /\ \A j \in Invs \ {i} : Local(j)' = Local(j)
           /\ AloneStep(i)]_vars

\* Both invocations ran to the end, interleaved, with different drafts and
\* different results.
C17_Witness ==
    /\ pc[1] = "done" /\ IsSuccess(result[1])
    /\ pc[2] = "done" /\ result[2] = PartyCancelled
    /\ date[1] # date[2]
    /\ elicits[1] # <<>> /\ elicits[2] # <<>>

\* C18: the prompt of a party-size elicitation names the candidate as an
\* invalid party size when the candidate is negative, and is the generic
\* party-size prompt when it is zero.
C18_PartyPromptChoice ==
    \A i \in Invs : pc[i] = "PartyElicit" =>
        /\ party_size[i] <= 0
        /\ party_size[i] < 0 =>
              /\ message[i] = PartyInvalid(party_size[i])
              /\ Contains(message[i], IntToStr(party_size[i]))
        /\ party_size[i] = 0 => message[i] = PartyGeneric

\* book_table was called with the party size -1 and its first party-size
\* prompt names it.
C18_Witness ==
    /\ pc[1] = "PartyElicit"
    /\ arg_party[1] = -1
    /\ elicits[1] = <<"GetPartySize">>
    /\ message[1] = PartyInvalid(-1)

\* The results that are not a success: cancellations, the disconnect string
\* and the two failure strings.
NotBooked(s) ==
    \/ s \in {DateCancelled, PartyCancelled, ConfirmCancelled, NotConfirmed,
              Disconnected}
    \/ s # <<>> /\ Head(s) \in {"U+274C Booking failed due to unexpected error: ",
                                "U+274C Error processing confirmation: "}

\* C19: a returned success string means the date loop ended on a candidate
\* validate_date accepted, party_size is positive, one Confirm elicitation was
\* issued and its outcome was Accepted with a truthy confirm flag; every
\* other returned string is a cancellation, disconnect or failure string.
C19_SuccessOnlyIf ==
    \A i \in Invs : pc[i] = "done" =>
        IF IsSuccess(result[i])
        THEN /\ checkedOn[i] # Never /\ ValidOn(date[i], checkedOn[i])
             /\ party_size[i] > 0
             /\ Cardinality({k \in 1..Len(elicits[i]) :
                                elicits[i][k] = "ConfirmBooking"}) = 1
             /\ Last(elicits[i]) = "ConfirmBooking"
             /\ outcome[i].kind = "Accepted"
             /\ outcome[i].data.confirm.t # "absent"
             /\ Truthy(outcome[i].data.confirm)
        ELSE NotBooked(result[i])

\* A booking made after one rejected date and one accepted date.
C19_Witness ==
    /\ pc[1] = "done" /\ IsSuccess(result[1])
    /\ arg_date[1] = <<"2", "0", "2", "4", "-", "0", "2", "-", "3", "0">>
    /\ date[1] = <<"2", "0", "9", "9", "-", "0", "1", "-", "0", "1">>
    /\ party_size[1] = 4

AfterParty == {"Confirm", "ConfirmElicit", "ConfirmReturned"}
AfterDate == {"AcquirePartySize", "PartyElicit", "PartyReturned"} \cup AfterParty

\* C20: once the date loop has ended, date is neither changed nor validated
\* again and the date loop is not entered again; once the party-size loop has
\* ended, party_size is not changed; the Confirm prompt and the success string
\* hold the draft's date and party size, whatever the confirmation payload
\* carries.
C20_DraftFrozen ==
    [][\A i \in Invs :
        /\ pc[i] \in AfterDate =>
              /\ date'[i] = date[i] /\ checkedOn'[i] = checkedOn[i]
              /\ pc'[i] \in AfterDate \cup {"done"}
        /\ pc[i] \in AfterParty =>
              /\ party_size'[i] = party_size[i]
              /\ pc'[i] \in AfterParty \cup {"done"}
        /\ (pc[i] = "Confirm" /\ pc'[i] # pc[i]) =>
              /\ message'[i] = ConfirmPrompt(party_size[i], date[i])
              /\ Contains(message'[i], IntToStr(party_size[i]))
              /\ Contains(message'[i], date[i])
        /\ (pc[i] = "ConfirmReturned" /\ IsSuccess(result'[i])) =>
              Contains(result'[i], Booked(party_size[i], date[i]))]_vars

\* The confirmation payload carried the date 2099-01-01 and the party size 4,
\* and the booking made is the draft's: 2025-02-28 for 20.
C20_Witness ==
    /\ pc[1] = "done"
    /\ outcome[1] = Accepted(OverridingConfirmation)
    /\ date[1] = <<"2", "0", "2", "5", "-", "0", "2", "-", "2", "8">>
    /\ party_size[1] = 20
    /\ Contains(result[1], Booked(20, date[1]))

====
